---- MODULE Spec2Model ----
(***************************************************************************)
(* A model of the core of rkyv (src/rkyv/src/lib.rs): the byte sink        *)
(* contract `Write`, the layered operations of `WriteExt` (align,          *)
(* align_for, resolve_aligned, archive, archive_ref), the relative pointer *)
(* `RelPtr`, the resolvers, and the two sinks `ArchiveBuffer` and          *)
(* `ArchiveWriter`.                                                        *)
(*                                                                         *)
(* Machine integers keep a width.  TLC's integers are 32 bits wide, so the *)
(* widths are scaled down: usize/isize are UsizeBits wide and the i32      *)
(* offset of a RelPtr is OffsetBits wide, OffsetBits < UsizeBits as        *)
(* 32 < 64.  A build is either a debug build (debug_assert! is checked and *)
(* arithmetic overflow panics) or a release build (debug_assert! is        *)
(* compiled out and arithmetic overflow wraps).                            *)
(***************************************************************************)
EXTENDS Integers, Sequences, FiniteSets, TLC

VARIABLES
    kind,       \* which sink was constructed: "buffer" (ArchiveBuffer) or "writer" (ArchiveWriter)
    debug,      \* TRUE: debug build, FALSE: release build
    inner,      \* ArchiveBuffer.inner (the fixed byte region) / the bytes ArchiveWriter.inner accepted
    pos,        \* the sink's pos field
    panicked,   \* a panic unwound out of the last operation
    last,       \* the last operation: its arguments, the state before, its result, its event log
    nops,       \* number of operations performed on the sink
    rel         \* the last RelPtr built directly with RelPtr::new

vars == <<kind, debug, inner, pos, panicked, last, nops, rel>>

----------------------------------------------------------------------------
(* Bounds of the model *)

UsizeBits == 7
OffsetBits == 5
Capacity == 40
MaxOps == 2
MaxSkip == 2
MaxBoxes == 1

(* Program constants *)

ZEROES_LEN == 16
RelPtrSize == 4
RelPtrAlign == 4

----------------------------------------------------------------------------
(* Machine arithmetic *)

UsizeMod == 2 ^ UsizeBits
UsizeMax == UsizeMod - 1
IsizeMax == 2 ^ (UsizeBits - 1) - 1
IsizeMin == 0 - 2 ^ (UsizeBits - 1)
OffsetMax == 2 ^ (OffsetBits - 1) - 1
OffsetMin == 0 - 2 ^ (OffsetBits - 1)

Usize == 0 .. UsizeMax

Min(a, b) == IF a < b THEN a ELSE b

\* x as a two's complement integer of the given width (an `as` cast to a signed type)
WrapSigned(x, bits) ==
    LET r == x % (2 ^ bits)
    IN  IF r >= 2 ^ (bits - 1) THEN r - 2 ^ bits ELSE r

\* `u as isize`
AsIsize(u) == WrapSigned(u, UsizeBits)

\* bitwise and of two naturals
RECURSIVE BitAnd(_, _)
BitAnd(x, y) ==
    IF x = 0 \/ y = 0 THEN 0
    ELSE (x % 2) * (y % 2) + 2 * BitAnd(x \div 2, y \div 2)

IsPowerOfTwo(a) == a > 0 /\ BitAnd(a, a - 1) = 0

----------------------------------------------------------------------------
(* RelPtr *)

\* RelPtr::new: `(to as isize - from as isize) as i32`.  The isize subtraction
\* panics on overflow in a debug build and wraps in a release build; the cast
\* to i32 truncates in every build.
RelPtrNew(from, to, dbg) ==
    LET d == AsIsize(to) - AsIsize(from)
    IN  IF dbg /\ (d > IsizeMax \/ d < IsizeMin)
        THEN [res |-> "Panic", offset |-> 0]
        ELSE [res |-> "Ok", offset |-> WrapSigned(WrapSigned(d, UsizeBits), OffsetBits)]

\* RelPtr::as_ptr for a RelPtr resident at archive position `at`: the archive
\* position its pointer designates, (address of self) + offset.
RelPtrAsPtr(at, offset) == (at + offset) % UsizeMod

\* The in-memory image of RelPtr { offset: i32 }: the little-endian bytes of offset.
RelPtrImage(offset) == [k \in 1 .. RelPtrSize |-> (offset \div (256 ^ (k - 1))) % 256]

\* The i32 read back from such an image.
RelPtrRead(bytes) ==
    IF bytes[4] >= 128
    THEN 0 - ((255 - bytes[1]) + 256 * (255 - bytes[2]) + 65536 * (255 - bytes[3])
              + 16777216 * (255 - bytes[4])) - 1
    ELSE bytes[1] + 256 * bytes[2] + 65536 * bytes[3] + 16777216 * bytes[4]

----------------------------------------------------------------------------
(* Sinks.  A sink value s gathers the sink object's fields (kind, inner,   *)
(* pos), the build (debug), the behaviour of the environment during the    *)
(* operation (script: the answers of the underlying io::Write to the next  *)
(* calls, all bytes accepted once it is used up; ub: what an out-of-bounds *)
(* copy does) and the log of events of the operation.                      *)

Event(e, at, n, res, to, aux, off, err) ==
    [e |-> e, at |-> at, n |-> n, res |-> res, to |-> to, aux |-> aux, off |-> off, err |-> err]

Result(s, res, val, err) == [s |-> s, res |-> res, val |-> val, err |-> err]

Logged(s, ev) == [s EXCEPT !.log = Append(@, ev)]

\* ptr::copy_nonoverlapping(bytes, inner + at, len) with wrapping address arithmetic
CopyInto(buf, at, bytes) ==
    [i \in 1 .. Len(buf) |->
        LET k == (i - 1 - at) % UsizeMod
        IN  IF k < Len(bytes) THEN bytes[k + 1] ELSE buf[i]]

\* ArchiveBuffer::write
BufferWrite(s, bytes) ==
    LET sum == s.pos + Len(bytes)
        end_pos == sum % UsizeMod
    IN  IF sum > UsizeMax /\ s.debug
        THEN Result(Logged(s, Event("write", s.pos, Len(bytes), "Panic", s.pos, 0, 0, "")),
                    "Panic", 0, "attempt to add with overflow")
        ELSE IF end_pos > Len(s.inner)
        THEN Result(Logged(s, Event("write", s.pos, Len(bytes), "Err", s.pos, 0, 0, "Overflow")),
                    "Err", 0, "Overflow")
        ELSE LET copied == IF sum > UsizeMax /\ s.ub = "elided"
                           THEN s.inner
                           ELSE CopyInto(s.inner, s.pos, bytes)
                 t == [s EXCEPT !.inner = copied, !.pos = end_pos]
             IN  Result(Logged(t, Event("write", s.pos, Len(bytes), "Ok", end_pos, Len(bytes), 0, "")),
                        "Ok", 0, "")

\* ArchiveWriter::write: `self.pos += self.inner.write(bytes)?`
WriterWrite(s, bytes) ==
    LET scripted == s.script # <<>>
        answer == IF scripted THEN Head(s.script) ELSE [err |-> "", acc |-> Len(bytes)]
        rest == IF scripted THEN Tail(s.script) ELSE <<>>
        n == Min(answer.acc, Len(bytes))
        sum == s.pos + n
    IN  IF answer.err # ""
        THEN Result(Logged([s EXCEPT !.script = rest],
                           Event("write", s.pos, Len(bytes), "Err", s.pos, 0, 0, answer.err)),
                    "Err", 0, answer.err)
        ELSE IF sum > UsizeMax /\ s.debug
        THEN Result(Logged([s EXCEPT !.script = rest, !.inner = @ \o SubSeq(bytes, 1, n)],
                           Event("write", s.pos, Len(bytes), "Panic", s.pos, n, 0, "")),
                    "Panic", 0, "attempt to add with overflow")
        ELSE LET t == [s EXCEPT !.script = rest, !.inner = @ \o SubSeq(bytes, 1, n),
                                !.pos = sum % UsizeMod]
             IN  Result(Logged(t, Event("write", s.pos, Len(bytes), "Ok", t.pos, n, 0, "")),
                        "Ok", 0, "")

\* Write::write, dispatched on the sink's type
Write(s, bytes) ==
    IF s.kind = "buffer" THEN BufferWrite(s, bytes) ELSE WriterWrite(s, bytes)

Zeroes(len) == [i \in 1 .. len |-> 0]

\* the padding loop leaving after its first chunk
PadLoopOneChunk(s, padding) == Write(s, Zeroes(Min(ZEROES_LEN, padding)))

\* the padding loop counting the bytes the position advanced by, not the bytes offered
RECURSIVE PadLoopByProgress(_, _)
PadLoopByProgress(s, padding) ==
    LET len == Min(ZEROES_LEN, padding)
        w == Write(s, Zeroes(len))
        done == (w.s.pos - s.pos) % UsizeMod
    IN  IF w.res # "Ok" THEN w
        ELSE IF padding - done = 0 THEN w
        ELSE PadLoopByProgress(w.s, padding - done)

\* the loop of WriteExt::align
RECURSIVE PadLoop(_, _)
PadLoop(s, padding) ==
    LET len == Min(ZEROES_LEN, padding)
        w == Write(s, Zeroes(len))
    IN  IF w.res # "Ok" THEN w
        ELSE IF padding - len = 0 THEN w
        ELSE PadLoop(w.s, padding - len)

\* align with the `?` on the padding write dropped: a failed write is ignored
AlignIgnoringFailure(s, align) ==
    LET offset == BitAnd(s.pos, align - 1)
        p == IF offset # 0 THEN PadLoop(s, align - offset) ELSE Result(s, "Ok", 0, "")
    IN  IF p.res = "Panic" THEN p
        ELSE Result(Logged(p.s, Event("aligned", p.s.pos, 0, "Ok", p.s.pos, align, 0, "")),
                    "Ok", p.s.pos, "")

\* WriteExt::align
Align(s, align) ==
    IF s.debug /\ ~IsPowerOfTwo(align)
    THEN Result(s, "Panic", 0, "assertion failed: align & (align - 1) == 0")
    ELSE LET offset == BitAnd(s.pos, align - 1)
             p == IF offset # 0 THEN PadLoop(s, align - offset) ELSE Result(s, "Ok", 0, "")
         IN  IF p.res # "Ok" THEN p
             ELSE Result(Logged(p.s, Event("aligned", p.s.pos, 0, "Ok", p.s.pos, align, 0, "")),
                         "Ok", p.s.pos, "")

----------------------------------------------------------------------------
(* Values.  A value is a primitive wrapped in `boxes` levels of Box:       *)
(* [boxes |-> n, prim |-> ty].  Primitives are self-archival (ArchiveSelf, *)
(* SelfResolver); a Box archives its content by reference and its archived *)
(* form is the reference, a RelPtr.                                        *)

PrimTypes == {"unit", "u8", "u32", "u64"}

\* mem::size_of
PrimSize(ty) ==
    CASE ty = "unit" -> 0
      [] ty = "u8" -> 1
      [] ty = "u32" -> 4
      [] ty = "u64" -> 8

\* mem::align_of
PrimAlign(ty) ==
    CASE ty = "unit" -> 1
      [] ty = "u8" -> 1
      [] ty = "u32" -> 4
      [] ty = "u64" -> 8

\* the in-memory bytes of the value of each type that is archived (host little-endian):
\* (), 0x5A, 0x11223344, 0xDEADBEEFCAFEBABE
PrimImage(ty) ==
    CASE ty = "unit" -> << >>
      [] ty = "u8" -> <<90>>
      [] ty = "u32" -> <<68, 51, 34, 17>>
      [] ty = "u64" -> <<190, 186, 254, 202, 239, 190, 173, 222>>

Values == [boxes : 0 .. MaxBoxes, prim : PrimTypes]

Unboxed(v) == [v EXCEPT !.boxes = @ - 1]

\* size_of::<T::Archived>() and align_of::<T::Archived>()
ArchivedSize(v) == IF v.boxes = 0 THEN PrimSize(v.prim) ELSE RelPtrSize
ArchivedAlign(v) == IF v.boxes = 0 THEN PrimAlign(v.prim) ELSE RelPtrAlign

\* Resolvers: SelfResolver, a position (usize), and a Box's resolver, which wraps the
\* resolver of its content's reference (a position)
SelfResolver == [k |-> "self", at |-> 0]
PosResolver(at) == [k |-> "pos", at |-> at]
BoxResolver(at) == [k |-> "box", at |-> at]

\* Resolve::resolve of both resolvers: the header's bytes, built without the sink
Resolve(resolver, at, v, dbg) ==
    IF resolver.k = "self"
    THEN [res |-> "Ok", image |-> PrimImage(v.prim), off |-> 0]
    ELSE LET r == RelPtrNew(at, resolver.at, dbg)
         IN  [res |-> r.res, image |-> RelPtrImage(r.offset), off |-> r.offset]

\* resolve_aligned returning the position after the header instead of the header's
ResolveAlignedReturningEnd(s, v, resolver, size, align) ==
    LET archived == Resolve(resolver, s.pos, v, s.debug)
        t == Logged(s, Event("resolve", s.pos, size, resolver.k, resolver.at,
                             align, archived.off, ""))
        w == Write(t, archived.image)
    IN  IF w.res # "Ok" THEN w ELSE Result(w.s, "Ok", w.s.pos, "")

\* WriteExt::resolve_aligned, for a header type of the given size and alignment
ResolveAligned(s, v, resolver, size, align) ==
    LET at == s.pos
    IN  IF s.debug /\ BitAnd(at, align - 1) # 0
        THEN Result(s, "Panic", 0, "assertion failed: pos & (align_of - 1) == 0")
        ELSE LET archived == Resolve(resolver, at, v, s.debug)
                 t == Logged(s, Event("resolve", at, size, resolver.k, resolver.at,
                                      align, archived.off, ""))
             IN  IF archived.res # "Ok"
                 THEN Result(s, "Panic", 0, "attempt to subtract with overflow")
                 ELSE LET w == Write(t, archived.image)
                      IN  IF w.res # "Ok" THEN w ELSE Result(w.s, "Ok", at, "")

RECURSIVE Archive(_, _), ArchiveStage1(_, _), ArchiveRefStage1(_, _)

\* Archive::archive of a value (stage 1): a primitive writes nothing and
\* returns SelfResolver; a Box archives its content by reference.
ArchiveStage1(s, v) ==
    IF v.boxes = 0
    THEN [s |-> s, res |-> "Ok", resolver |-> SelfResolver, err |-> ""]
    ELSE LET r == ArchiveRefStage1(s, Unboxed(v))
         IN  [s |-> r.s, res |-> r.res, resolver |-> BoxResolver(r.val), err |-> r.err]

\* ArchiveRef::archive_ref of a sized value: `Ok(writer.archive(self)?)`
ArchiveRefStage1(s, v) == Archive(s, v)

\* WriteExt::archive
Archive(s, v) ==
    LET r == ArchiveStage1(s, v)
    IN  IF r.res # "Ok" THEN Result(r.s, r.res, 0, r.err)
        ELSE LET a == Align(r.s, ArchivedAlign(v))
             IN  IF a.res # "Ok" THEN a
                 ELSE ResolveAligned(a.s, v, r.resolver, ArchivedSize(v), ArchivedAlign(v))

\* WriteExt::archive_ref
ArchiveRef(s, v) ==
    LET r == ArchiveRefStage1(s, v)
    IN  IF r.res # "Ok" THEN r
        ELSE LET a == Align(r.s, RelPtrAlign)
             IN  IF a.res # "Ok" THEN a
                 ELSE ResolveAligned(a.s, v, PosResolver(r.val), RelPtrSize, RelPtrAlign)

----------------------------------------------------------------------------
(* The state machine *)

NoValue == [boxes |-> 0, prim |-> "unit"]
NoRel == [from |-> 0, to |-> 0, res |-> "none", offset |-> 0]
NoOp == [op |-> "none", v |-> NoValue, a |-> 0, bytes |-> << >>, prePos |-> 0,
         preInner |-> << >>, res |-> "Ok", val |-> 0, err |-> "", log |-> << >>]

\* positions handed to with_pos (new is with_pos(inner, 0))
InitPositions == {0, 5, Capacity - 3, Capacity + 1, UsizeMax}

\* ArchiveBuffer::new / with_pos over a caller's region of Capacity bytes (each 0xAA),
\* ArchiveWriter::new / with_pos over a writer that has accepted nothing yet
Init ==
    /\ kind \in {"buffer", "writer"}
    /\ debug \in BOOLEAN
    /\ inner = IF kind = "buffer" THEN [i \in 1 .. Capacity |-> 170] ELSE << >>
    /\ pos \in InitPositions
    /\ panicked = FALSE
    /\ last = NoOp
    /\ nops = 0
    /\ rel = NoRel

\* what the underlying io::Write answers to one call: an error, or Ok(n) with n <= acc
Answers == {[err |-> "BrokenPipe", acc |-> 0], [err |-> "", acc |-> 0], [err |-> "", acc |-> 1]}

\* its answers during one operation: `skip` calls accepted in full, one answer, then
\* every call accepted in full
Scripts ==
    IF kind = "buffer" THEN {<< >>}
    ELSE {<< >>} \cup
         {[i \in 1 .. skip + 1 |->
              IF i <= skip THEN [err |-> "", acc |-> UsizeMax] ELSE answer] :
          skip \in 0 .. MaxSkip, answer \in Answers}

\* what a copy through an out-of-bounds pointer does (undefined behaviour): the
\* address wraps and the bytes land there, or the copy leaves the region alone
UBOutcomes == IF kind = "buffer" /\ ~debug THEN {"wrapped", "elided"} ELSE {"wrapped"}

Sink(script, ub) ==
    [kind |-> kind, debug |-> debug, inner |-> inner, pos |-> pos,
     script |-> script, ub |-> ub, log |-> << >>]

\* the state after an operation that ended with result r
Finish(op, v, a, bytes, r) ==
    /\ inner' = r.s.inner
    /\ pos' = r.s.pos
    /\ panicked' = (r.res = "Panic")
    /\ last' = [op |-> op, v |-> v, a |-> a, bytes |-> bytes, prePos |-> pos,
                preInner |-> inner, res |-> r.res, val |-> r.val, err |-> r.err,
                log |-> r.s.log]
    /\ nops' = nops + 1
    /\ UNCHANGED <<kind, debug, rel>>

CanOperate == ~panicked /\ nops < MaxOps

ByteSlices == {<< >>, <<7>>, <<1, 2, 3, 4, 5>>}
Alignments == {1, 4, 8, 32}

DoWrite ==
    /\ CanOperate
    /\ \E bytes \in ByteSlices, script \in Scripts, ub \in UBOutcomes :
          Finish("write", NoValue, 0, bytes, Write(Sink(script, ub), bytes))

DoAlign ==
    /\ CanOperate
    /\ \E a \in Alignments, script \in Scripts, ub \in UBOutcomes :
          Finish("align", NoValue, a, << >>, Align(Sink(script, ub), a))

DoArchive ==
    /\ CanOperate
    /\ \E v \in Values, script \in Scripts, ub \in UBOutcomes :
          Finish("archive", v, 0, << >>, Archive(Sink(script, ub), v))

DoArchiveRef ==
    /\ CanOperate
    /\ \E v \in Values, script \in Scripts, ub \in UBOutcomes :
          Finish("archive_ref", v, 0, << >>, ArchiveRef(Sink(script, ub), v))

Next == DoWrite \/ DoAlign \/ DoArchive \/ DoArchiveRef

Spec == Init /\ [][Next]_vars

\* One operation on a sink constructed by with_pos at any position whatever
InitAnyPos ==
    /\ kind \in {"buffer", "writer"}
    /\ debug \in BOOLEAN
    /\ inner = IF kind = "buffer" THEN [i \in 1 .. Capacity |-> 170] ELSE << >>
    /\ pos \in Usize
    /\ panicked = FALSE
    /\ last = NoOp
    /\ nops = 0
    /\ rel = NoRel

NextFirst ==
    \/ nops = 0 /\ DoWrite
    \/ nops = 0 /\ DoAlign
    \/ nops = 0 /\ DoArchive
    \/ nops = 0 /\ DoArchiveRef

SpecFirst == InitAnyPos /\ [][NextFirst]_vars

\* RelPtr::new applied to a pair of positions
DoRelPtrNew ==
    /\ rel.res = "none"
    /\ \E from \in Usize, to \in Usize :
          LET r == RelPtrNew(from, to, debug)
          IN  rel' = [from |-> from, to |-> to, res |-> r.res, offset |-> r.offset]
    /\ UNCHANGED <<kind, debug, inner, pos, panicked, last, nops>>

InitRel == Init /\ kind = "buffer" /\ pos = 0

NextRel == DoRelPtrNew

SpecRel == InitRel /\ [][NextRel]_vars

----------------------------------------------------------------------------
(* Reading the last operation *)

Log == last.log
Events(e) == {i \in DOMAIN Log : Log[i].e = e}
IsArchiveOp == last.op \in {"archive", "archive_ref"}
Returned == last.op # "none" /\ last.res # "Panic"

\* the smallest multiple of a that is >= p
AlignUp(p, a) == ((p + a - 1) \div a) * a

----------------------------------------------------------------------------
(* C1: for every sink and every power-of-two a, whenever align(a) returns  *)
(* Ok, the sink's pos() is a multiple of a and the returned value is that  *)
(* pos().                                                                  *)
C1_AlignOkIsAligned ==
    (last.op = "align" /\ last.res = "Ok") => (pos % last.a = 0 /\ last.val = pos)

(* C2: in every run of archive or archive_ref, nested calls included, each *)
(* header is emitted at a multiple of the alignment of its archived header *)
(* type, and the alignment assertion of resolve_aligned never fails.       *)
C2_HeadersAligned ==
    IsArchiveOp =>
        /\ \A i \in Events("resolve") : Log[i].at % Log[i].aux = 0
        /\ ~(last.res = "Panic" /\ last.err = "assertion failed: pos & (align_of - 1) == 0")

(* C3: buffer sink: a write of len bytes with pos + len > capacity returns *)
(* the Overflow error and leaves the position and every byte of the buffer *)
(* unchanged.                                                              *)
C3_OverflowLeavesSinkUnchanged ==
    (kind = "buffer" /\ last.op = "write"
        /\ last.prePos + Len(last.bytes) > Len(last.preInner)) =>
        /\ last.res = "Err" /\ last.err = "Overflow"
        /\ pos = last.prePos
        /\ inner = last.preInner

(* C4: for every sink, each write that returns Ok advances pos() by        *)
(* exactly the length of the slice passed to it, and pos() never decreases *)
(* (stated over one operation: over each of its writes, and from the       *)
(* position before it to the position after it).                           *)
C4_WriteAdvancesByLength ==
    /\ \A i \in Events("write") : Log[i].res = "Ok" => Log[i].to = Log[i].at + Log[i].n
    /\ last.op # "none" => pos >= last.prePos

(* C5: RelPtr::new(from, to) never silently truncates: when to - from lies *)
(* outside the range of the offset field, the constructor reports it       *)
(* instead of storing a wrapped offset.                                    *)
C5_NoSilentTruncation ==
    (rel.res # "none" /\ (rel.to - rel.from > OffsetMax \/ rel.to - rel.from < OffsetMin)) =>
        rel.res = "Panic"

(* C6: a RelPtr created as new(P, Q) and written at P dereferences to      *)
(* archive offset Q: as_ptr, applied to the pointer read back at P, yields *)
(* P + offset, and P + offset = Q.                                         *)
C6_RelPtrDerefsToReferent ==
    rel.res = "Ok" =>
        LET offset == RelPtrRead(RelPtrImage(rel.offset))
        IN  /\ RelPtrAsPtr(rel.from, offset) = rel.to
            /\ rel.from + offset = rel.to

(* C7: two-phase separation: in every archive / archive_ref call, stage 2  *)
(* issues exactly one write of exactly sizeof(Archived) bytes, resolve     *)
(* itself issues no write, the position passed to resolve is the position  *)
(* left by the alignment step and the position returned; on success the    *)
(* sink position afterwards is the returned position plus sizeof(Archived).*)
C7_TwoPhaseSeparation ==
    IsArchiveOp =>
        /\ \A i \in Events("resolve") :
              /\ i > 1 /\ Log[i - 1].e = "aligned" /\ Log[i - 1].at = Log[i].at
              /\ i < Len(Log) /\ Log[i + 1].e = "write"
              /\ Log[i + 1].at = Log[i].at /\ Log[i + 1].n = Log[i].n
        /\ last.res = "Ok" =>
              /\ Len(Log) >= 2 /\ Log[Len(Log) - 1].e = "resolve"
              /\ last.val = Log[Len(Log) - 1].at
              /\ pos = last.val + Log[Len(Log) - 1].n

(* C8: archive, archive_ref and align return an error if and only if some  *)
(* sink write made during the operation returned an error; the error is    *)
(* that write's error unchanged, and nothing is written (or done) to the   *)
(* sink after the first failed write.                                      *)
FailedWrites == {i \in Events("write") : Log[i].res = "Err"}

C8_FailsIffAWriteFails ==
    (last.op \in {"align", "archive", "archive_ref"} /\ Returned) =>
        /\ (last.res = "Err") <=> (FailedWrites # {})
        /\ last.res = "Err" =>
              /\ FailedWrites = {Len(Log)}
              /\ last.err = Log[Len(Log)].err

\* an archive_ref that emitted a header and then met a failing write
C8_Witness ==
    /\ last.op = "archive_ref" /\ last.res = "Err" /\ last.err = "BrokenPipe"
    /\ Events("resolve") # {}
    /\ Log[Len(Log)].e = "write" /\ Log[Len(Log)].res = "Err"

(* C9: every relative pointer emitted by the archive protocol points       *)
(* backward or to itself: whenever a position is resolved into a RelPtr,   *)
(* the stored referent position is <= the position at which the RelPtr     *)
(* header is written, so the stored offset is <= 0.                        *)
C9_PointersPointBackward ==
    IsArchiveOp =>
        \A i \in Events("resolve") :
            Log[i].res \in {"pos", "box"} => (Log[i].to <= Log[i].at /\ Log[i].off <= 0)

(* C10: for every self-archival value v and every sink with enough         *)
(* capacity (a buffer with room for padding and header; a writer that      *)
(* accepts every byte offered, the position staying within usize),         *)
(* archive(v) succeeds, writes nothing before the header but the padding,  *)
(* returns the position the sink had immediately before the header write   *)
(* (the post-alignment position), leaves the byte image of v at            *)
(* [returned, returned + sizeof(v)) and the position at returned +         *)
(* sizeof(v).                                                              *)
SelfArchived == last.op = "archive" /\ last.v.boxes = 0

EnoughCapacity ==
    LET end == AlignUp(last.prePos, PrimAlign(last.v.prim)) + PrimSize(last.v.prim)
    IN  IF kind = "buffer" THEN end <= Len(last.preInner)
        ELSE /\ end <= UsizeMax
             /\ \A i \in Events("write") : Log[i].res = "Ok" /\ Log[i].aux = Log[i].n

\* the bytes the sink holds for archive positions [from, from + n), for positions at
\* or after the one the last operation started from
BytesAt(from, n) ==
    LET base == IF kind = "buffer" THEN 0 ELSE Len(last.preInner) - last.prePos
    IN  SubSeq(inner, base + from + 1, base + from + n)

C10_SelfArchiveRoundTrip ==
    (SelfArchived /\ EnoughCapacity) =>
        LET size == PrimSize(last.v.prim)
        IN  /\ last.res = "Ok"
            /\ Cardinality(Events("resolve")) = 1
            /\ last.val = AlignUp(last.prePos, PrimAlign(last.v.prim))
            /\ Log[Len(Log)].e = "write" /\ Log[Len(Log)].at = last.val
            /\ Log[Len(Log)].n = size
            /\ \A i \in Events("write") : i < Len(Log) => Log[i].to <= last.val
            /\ BytesAt(last.val, size) = PrimImage(last.v.prim)
            /\ pos = last.val + size

\* the 32-bit integer 0x11223344 archived into a fresh buffer: root 0, pos() = 4
C10_Witness ==
    /\ kind = "buffer" /\ nops = 1 /\ SelfArchived /\ last.v.prim = "u32"
    /\ last.prePos = 0 /\ last.res = "Ok" /\ last.val = 0 /\ pos = 4
    /\ SubSeq(inner, 1, 4) = <<68, 51, 34, 17>>

(* C11: align is idempotent when already aligned: from every sink state    *)
(* whose pos() is a multiple of a, align(a) issues no write, leaves the    *)
(* position and all sink bytes unchanged and returns Ok(pos()); hence a    *)
(* second align(a) right after a successful align(a) emits nothing.        *)
AlignStep(a) == last'.op = "align" /\ last'.a = a /\ nops' = nops + 1

AlignEmitsNothing ==
    /\ \A i \in DOMAIN last'.log : last'.log[i].e # "write"
    /\ pos' = pos /\ inner' = inner
    /\ last'.res = "Ok" /\ last'.val = pos

C11_AlignIdempotent ==
    [][\A a \in Alignments :
          /\ (AlignStep(a) /\ pos % a = 0) => AlignEmitsNothing
          /\ (AlignStep(a) /\ last.op = "align" /\ last.a = a /\ last.res = "Ok")
                => AlignEmitsNothing]_vars

\* the part of C11 that the code satisfies: already aligned, nothing emitted
C11_AlignedEmitsNothing ==
    [][\A a \in Alignments : (AlignStep(a) /\ pos % a = 0) => AlignEmitsNothing]_vars

(* C12: on a buffer sink with enough remaining capacity, align(a) from     *)
(* position p moves the position to the smallest multiple of a that is     *)
(* >= p, every byte in [p, new position) is zero and no byte outside that  *)
(* range is changed (also for a > 16, padded in several chunks).           *)
C12_AlignPadsWithZeroes ==
    (kind = "buffer" /\ last.op = "align"
        /\ AlignUp(last.prePos, last.a) <= Len(last.preInner)) =>
        /\ last.res = "Ok"
        /\ pos = AlignUp(last.prePos, last.a)
        /\ last.val = pos
        /\ \A i \in 1 .. Len(inner) :
              inner[i] = IF last.prePos < i /\ i <= pos THEN 0 ELSE last.preInner[i]

\* from position 5, align(32): two chunks, position 32, bytes 5..32 zero
C12_Witness ==
    /\ kind = "buffer" /\ last.op = "align" /\ last.a = 32 /\ last.prePos = 5
    /\ pos = 32 /\ Cardinality(Events("write")) = 2
    /\ \A i \in 6 .. 32 : inner[i] = 0
    /\ inner[5] = 170 /\ inner[33] = 170

\* from position 5, align(8): position 8, bytes 5..8 zero
C12_Scenario ==
    /\ kind = "buffer" /\ last.op = "align" /\ last.a = 8 /\ last.prePos = 5
    /\ pos = 8 /\ inner[6] = 0 /\ inner[7] = 0 /\ inner[8] = 0

(* C13: streaming sink: when the underlying writer reports Ok(n), write    *)
(* returns Ok and the tracked position increases by exactly n; when it     *)
(* returns an error, write returns that error and the position is          *)
(* unchanged; so after the writes of an operation the position is the      *)
(* position before it plus the number of bytes the writer accepted.        *)
RECURSIVE AcceptedBytes(_)
AcceptedBytes(log) ==
    IF log = << >> THEN 0
    ELSE (IF Head(log).e = "write" THEN Head(log).aux ELSE 0) + AcceptedBytes(Tail(log))

C13_WriterTracksAccepted ==
    (kind = "writer" /\ last.op # "none") =>
        /\ \A i \in Events("write") :
              IF Log[i].err = ""
              THEN Log[i].res = "Ok" /\ Log[i].to = Log[i].at + Log[i].aux
              ELSE Log[i].res = "Err" /\ Log[i].to = Log[i].at /\ last.err = Log[i].err
        /\ pos = last.prePos + AcceptedBytes(Log)

\* the same, for positions that stay within usize
C13_WithinUsize ==
    (kind = "writer" /\ last.op # "none" /\ last.prePos + AcceptedBytes(Log) <= UsizeMax) =>
        /\ \A i \in Events("write") :
              IF Log[i].err = ""
              THEN Log[i].res = "Ok" /\ Log[i].to = Log[i].at + Log[i].aux
              ELSE Log[i].res = "Err" /\ Log[i].to = Log[i].at /\ last.err = Log[i].err
        /\ pos = last.prePos + AcceptedBytes(Log)

(* C14: archive_ref of a sized value performs, in order: the value's own   *)
(* archive (alignment for its archived type, header at position R), then   *)
(* alignment to 4, then one 4-byte RelPtr header at position               *)
(* P >= R + sizeof(Archived); the stored offset is R - P and archive_ref   *)
(* returns P; every inner header is written before each outer one.         *)
Max(S) == CHOOSE x \in S : \A y \in S : y <= x

C14_ArchiveRefOrder ==
    (last.op = "archive_ref" /\ last.res = "Ok") =>
        LET n == Len(Log)
            p == n - 1
        IN  /\ Cardinality(Events("resolve")) >= 2 /\ p \in Events("resolve")
            /\ LET r == Max(Events("resolve") \ {p})
               IN  /\ r > 1 /\ Log[r - 1].e = "aligned"
                   /\ Log[r - 1].aux = ArchivedAlign(last.v)
                   /\ Log[r].n = ArchivedSize(last.v) /\ Log[r].res # "pos"
                   /\ Log[r + 1].e = "write" /\ Log[r + 1].at = Log[r].at
                   /\ \A i \in r + 2 .. p - 2 : Log[i].e = "write"
                   /\ Log[p - 1].e = "aligned" /\ Log[p - 1].aux = RelPtrAlign
                   /\ Log[p].res = "pos" /\ Log[p].n = RelPtrSize
                   /\ Log[n].e = "write" /\ Log[n].at = Log[p].at
                   /\ Log[n].n = RelPtrSize
                   /\ Log[p].to = Log[r].at
                   /\ Log[p].at >= Log[r].at + ArchivedSize(last.v)
                   /\ Log[p].off = Log[r].at - Log[p].at
                   /\ last.val = Log[p].at
            /\ \A i, j \in Events("resolve") : i < j => Log[i].at + Log[i].n <= Log[j].at

(* C15: the buffer sink is append-only: a successful write of n bytes at   *)
(* position p changes exactly buffer[p .. p+n) to the given bytes and      *)
(* nothing else, and no operation (write, align, archive, archive_ref,     *)
(* successful or failed) changes a byte at an index below the position it  *)
(* started from.                                                           *)
C15_BufferAppendOnly ==
    (kind = "buffer" /\ last.op # "none") =>
        /\ (last.op = "write" /\ last.res = "Ok") =>
              \A i \in 1 .. Len(inner) :
                  inner[i] = IF last.prePos < i /\ i <= last.prePos + Len(last.bytes)
                             THEN last.bytes[i - last.prePos]
                             ELSE last.preInner[i]
        /\ \A i \in 1 .. Len(inner) : i <= last.prePos => inner[i] = last.preInner[i]

\* the same, for operations that start within the buffer's capacity
C15_WithinCapacity ==
    (last.prePos <= Capacity) => C15_BufferAppendOnly

(* C16: buffer sink bounds: an operation that starts from a position <=    *)
(* capacity ends at a position <= capacity and none of its writes reaches  *)
(* an index >= capacity; an operation that starts from a position >        *)
(* capacity (reachable through with_pos only) has every write, a           *)
(* zero-length one included, return Overflow and changes nothing.          *)
C16_StaysWithinCapacity ==
    (kind = "buffer" /\ last.op # "none" /\ last.prePos <= Len(last.preInner)) =>
        /\ pos <= Len(inner)
        /\ \A i \in Events("write") : Log[i].res = "Ok" => Log[i].to <= Len(inner)

C16_BeyondCapacityOverflows ==
    (kind = "buffer" /\ last.op # "none" /\ last.prePos > Len(last.preInner)) =>
        /\ \A i \in Events("write") : Log[i].res = "Err" /\ Log[i].err = "Overflow"
        /\ last.op = "write" => (last.res = "Err" /\ last.err = "Overflow")
        /\ pos = last.prePos /\ inner = last.preInner

C16_BufferBounds == C16_StaysWithinCapacity /\ C16_BeyondCapacityOverflows

(* C17: align(a) terminates: from position p with p mod a = k # 0 it       *)
(* issues at most ceil((a - k) / 16) writes, each of at most 16 bytes,     *)
(* stopping at the first failed write; the i-th write offers the i-th      *)
(* chunk of the requested padding whatever the sink's position did, and a  *)
(* successful align has offered a - k bytes in all.                        *)
Chunks(padding) == (padding + ZEROES_LEN - 1) \div ZEROES_LEN

C17_AlignWritesBounded ==
    (last.op = "align" /\ last.prePos % last.a # 0) =>
        LET padding == last.a - (last.prePos % last.a)
            writes == Events("write")
        IN  /\ Cardinality(writes) <= Chunks(padding)
            /\ writes = 1 .. Cardinality(writes)
            /\ \A i \in writes :
                  /\ Log[i].n = Min(ZEROES_LEN, padding - ZEROES_LEN * (i - 1))
                  /\ Log[i].n <= ZEROES_LEN
                  /\ Log[i].res # "Ok" => i = Cardinality(writes) /\ last.res = Log[i].res
            /\ last.res = "Ok" => Cardinality(writes) = Chunks(padding)

\* align(32) from position 5 on a writer that accepts nothing of the first chunk: two
\* writes, of 16 and of 11 bytes, and the position ends at 16
C17_Witness ==
    /\ kind = "writer" /\ last.op = "align" /\ last.a = 32 /\ last.prePos = 5
    /\ last.res = "Ok"
    /\ Cardinality(Events("write")) = 2
    /\ Log[1].n = 16 /\ Log[1].aux = 0 /\ Log[2].n = 11 /\ Log[2].aux = 11
    /\ pos = 16

====
